---- MODULE Spec2Model ----
(***************************************************************************)
(* sqliter: connection setup and schema migration on top of SQLite.        *)
(*                                                                         *)
(* The model follows src/src/migrations.rs (the migration registry, a      *)
(* BinaryHeap<Reverse<Migration>>) and src/src/builder.rs (the connection  *)
(* builder: open, open_in_memory and setup).  A database is abstracted to  *)
(* its two pragma slots (application_id, user_version) and to the set of   *)
(* migration versions whose writes are present in it (content).            *)
(***************************************************************************)
EXTENDS Integers, Sequences, FiniteSets, TLC

\* ------------------------------------------------------------------ bounds
MaxVersion == 3
MaxMigrations == 3

\* ------------------------------------------------------- program constants
APP_ID == 12345

AppIds == {0, APP_ID}
Versions == 1..MaxVersion
Targets == {"file", "memory"}

VARIABLES
    migrations,                \* builder: Migrations.migrations, the heap's backing vector
    app_id,                    \* builder: app_id
    file_exists,               \* the database file exists on disk
    store,                     \* committed state of each database (file / in-memory)
    pc,                        \* position of the caller / of setup
    target,                    \* which database the connection is attached to
    is_new,                    \* setup's is_new argument
    foreign_keys,              \* connection's foreign_keys pragma ("default" until set)
    user_version,              \* setup local: user_version read from the database
    latest_migration_version,  \* setup local
    idx,                       \* position of the iterator over self.migrations.iter()
    txn,                       \* the open transaction (working copy) or NoTxn
    outcome,                   \* result of open / open_in_memory
    pre,                       \* history: database state when the pass started
    invoked,                   \* history: heap positions of the migrations invoked in this pass
    failed,                    \* history: heap position of the migration that returned Err (0: none)
    txn_begun,                 \* history: conn.transaction() was called in this pass
    prev,                      \* history: what the previous pass did, when the builder was rebuilt identically
    on_close,                  \* builder: on_close.is_some()
    conn_on_close,             \* the hook is attached to the connection handed to setup
    on_close_calls,            \* calls of the hook made when that connection was closed
    hook_configured,           \* history: on_close was Some when open / open_in_memory was called
    first_attempt,             \* history: how open's first open_with_flags ended
    txn_end,                   \* history: how the pass's transaction ended
    n_added                    \* history: number of add calls that returned

vars == << migrations, app_id, file_exists, store, pc, target, is_new, foreign_keys,
           user_version, latest_migration_version, idx, txn, outcome,
           pre, invoked, failed, txn_begun, prev,
           on_close, conn_on_close, on_close_calls, hook_configured, first_attempt, txn_end, n_added >>

\* ------------------------------------------------------------ registry
\* struct Migration { version, perform_in_transaction, migration }
Migration(version, perform_in_transaction) ==
    [version |-> version, perform_in_transaction |-> perform_in_transaction]

\* Ord for Migration compares versions only; the heap holds Reverse<Migration>,
\* so Reverse(a) <= Reverse(b) iff b.version <= a.version.
reverse_le(a, b) == b.version <= a.version

swap(data, i, j) ==
    [k \in 1..Len(data) |-> IF k = i THEN data[j] ELSE IF k = j THEN data[i] ELSE data[k]]

\* BinaryHeap::sift_up(0, pos) on a 1-based vector: the parent of pos is pos \div 2.
RECURSIVE sift_up(_, _)
sift_up(data, pos) ==
    IF pos <= 1 THEN data
    ELSE LET parent == pos \div 2
         IN IF reverse_le(data[pos], data[parent]) THEN data
            ELSE sift_up(swap(data, pos, parent), parent)

\* migrations.rs:57-62 with an insertion that keeps one migration per version
do_add_migration_dedup(heap, version, perform_in_transaction) ==
    IF \E i \in 1..Len(heap) : heap[i].version = version THEN heap
    ELSE sift_up(Append(heap, Migration(version, perform_in_transaction)), Len(heap) + 1)

\* BinaryHeap::push as called by do_add_migration
do_add_migration(heap, version, perform_in_transaction) ==
    sift_up(Append(heap, Migration(version, perform_in_transaction)), Len(heap) + 1)

\* Migrations::iter(): BinaryHeap::iter() visits the backing vector front to back.
iter(heap) == heap

\* ------------------------------------------------------------ database
BlankDb == [application_id |-> 0, user_version |-> 0, content |-> {}]
NoTxn == [active |-> FALSE, user_version |-> 0, content |-> {}]
NoOutcome == [kind |-> "none"]
NoPrev == [same |-> FALSE, fresh_ok |-> FALSE, version |-> 0]

\* conn.transaction(): the working copy starts from the committed state
transaction(db) == [active |-> TRUE, user_version |-> db.user_version, content |-> db.content]

\* migration(&*transaction): the procedure's writes land in the transaction
run_migration(t, m) == [t EXCEPT !.content = @ \cup {m.version}]

\* state of the database after a migration returned Ok, while the loop goes on
after_migration_commit(db, t) == [db EXCEPT !.content = t.content]
after_migration(db, t) == db

\* transaction.commit()
commit(db, t) == [db EXCEPT !.user_version = t.user_version, !.content = t.content]

\* Transaction dropped without commit (early return, or Ok(()) without commit): rollback
transaction_drop_commits(db, t) == [db EXCEPT !.user_version = t.user_version, !.content = t.content]
transaction_drop(db, t) == db

\* builder.rs:153
pending_ge(version, uv) == version >= uv
pending(version, uv) == version > uv

\* builder.rs:131
WrongApplicationId_configured(val, configured) == [kind |-> "WrongApplicationId", id |-> configured]
WrongApplicationId(val, configured) == [kind |-> "WrongApplicationId", id |-> val]

\* builder.rs:166
OutOfDate(db_version, latest_migration) ==
    [kind |-> "OutOfDate", db_version |-> db_version, latest_migration |-> latest_migration]

\* migrations.rs:56, assert!(version > 0)
version_ok_ge(version) == version >= 0
version_ok(version) == version > 0

\* versions a caller may pass to add
VersionInputs == 0..MaxVersion

\* builder.rs:120, the branch that writes application_id
stamps_tag_always(new) == TRUE
stamps_tag(new) == new

\* builder.rs:136, pragma_update(None, "foreign_keys", true)
set_foreign_keys_keep(current) == current
set_foreign_keys(current) == "on"

\* builder.rs:91, Ok(conn) => (conn, false)
opened_is_new_if_empty(db) == db = BlankDb
opened_is_new(db) == FALSE

\* builder.rs:151, the iterator advances to the next item
next_idx_stuck(i) == i
next_idx(i) == i + 1

\* builder.rs:158
needs_commit_ne(latest, uv) == latest # uv
needs_commit_ge(latest, uv) == latest >= uv
needs_commit(latest, uv) == latest > uv

\* builder.rs:107-115, connection_builder(): on_close.take() moves the hook
\* into the async_rusqlite builder and leaves None behind
connection_builder(oc) == [hook |-> oc, on_close |-> FALSE]

\* ------------------------------------------------------------ initial state
Init ==
    /\ migrations = << >>
    /\ app_id = 0
    /\ file_exists = FALSE
    /\ store = [t \in Targets |-> BlankDb]
    /\ pc = "builder"
    /\ target = "file"
    /\ is_new = FALSE
    /\ foreign_keys = "default"
    /\ user_version = 0
    /\ latest_migration_version = 0
    /\ idx = 0
    /\ txn = NoTxn
    /\ outcome = NoOutcome
    /\ pre = BlankDb
    /\ invoked = << >>
    /\ failed = 0
    /\ txn_begun = FALSE
    /\ prev = NoPrev
    /\ on_close = FALSE
    /\ conn_on_close = FALSE
    /\ on_close_calls = 0
    /\ hook_configured = FALSE
    /\ first_attempt = "none"
    /\ txn_end = "none"
    /\ n_added = 0

pass_vars == << target, is_new, foreign_keys, user_version, latest_migration_version,
                idx, txn, outcome, pre, invoked, failed, txn_begun,
                conn_on_close, on_close_calls, hook_configured, first_attempt, txn_end >>

\* ------------------------------------------------------------ builder
\* Migrations::add / ConnectionBuilder::add_migration (perform_in_transaction = TRUE)
\* and Migrations::add_non_transactionally + set_migrations (FALSE)
Add(pit) ==
    /\ pc = "builder"
    /\ Len(migrations) < MaxMigrations
    /\ \E version \in VersionInputs :
          /\ version_ok(version)
          /\ migrations' = do_add_migration(migrations, version, pit)
    /\ n_added' = n_added + 1
    /\ prev' = NoPrev
    /\ UNCHANGED << app_id, file_exists, store, pc, pass_vars, on_close >>

AddMigration == \E pit \in BOOLEAN : Add(pit)

\* Migrations::add / ConnectionBuilder::add_migration alone
AddTransactional == Add(TRUE)

\* assert!(version > 0) fails
AddMigrationPanics ==
    /\ pc = "builder"
    /\ \E version \in VersionInputs : ~version_ok(version)
    /\ pc' = "panicked"
    /\ UNCHANGED << migrations, app_id, file_exists, store, pass_vars, prev, on_close, n_added >>

\* ConnectionBuilder::app_id
SetAppId ==
    /\ pc = "builder"
    /\ \E a \in AppIds : a # app_id /\ app_id' = a
    /\ prev' = NoPrev
    /\ UNCHANGED << migrations, file_exists, store, pc, pass_vars, on_close, n_added >>

\* ConnectionBuilder::on_close
SetOnClose ==
    /\ pc = "builder"
    /\ ~on_close
    /\ on_close' = TRUE
    /\ prev' = NoPrev
    /\ UNCHANGED << migrations, app_id, file_exists, store, pc, pass_vars, n_added >>

\* ------------------------------------------------------------ open
StartPass(tgt, new, db) ==
    /\ target' = tgt
    /\ is_new' = new
    /\ pre' = db
    /\ pc' = "identity"

\* ConnectionBuilder::open_in_memory: a blank database, setup(conn, true)
OpenInMemory ==
    /\ pc = "builder"
    /\ store' = [store EXCEPT !["memory"] = BlankDb]
    /\ StartPass("memory", TRUE, BlankDb)
    /\ hook_configured' = on_close
    /\ conn_on_close' = connection_builder(on_close).hook
    /\ on_close' = connection_builder(on_close).on_close
    /\ UNCHANGED << migrations, app_id, file_exists, foreign_keys, user_version,
                    latest_migration_version, idx, txn, outcome, invoked, failed, txn_begun, prev,
                    on_close_calls, first_attempt, txn_end, n_added >>

\* ConnectionBuilder::open, first attempt (no SQLITE_OPEN_CREATE) succeeds
OpenExisting ==
    /\ pc = "builder"
    /\ file_exists
    /\ StartPass("file", opened_is_new(store["file"]), store["file"])
    /\ first_attempt' = "ok"
    /\ hook_configured' = on_close
    /\ conn_on_close' = connection_builder(on_close).hook
    /\ on_close' = connection_builder(on_close).on_close
    /\ UNCHANGED << migrations, app_id, file_exists, store, foreign_keys, user_version,
                    latest_migration_version, idx, txn, outcome, invoked, failed, txn_begun, prev,
                    on_close_calls, txn_end, n_added >>

\* first attempt fails with something other than CannotOpen: Err(e) => return
OpenFailsOther ==
    /\ pc = "builder"
    /\ target' = "file"
    /\ outcome' = [kind |-> "Db"]
    /\ pc' = "done"
    /\ first_attempt' = "other"
    /\ hook_configured' = on_close
    /\ on_close' = connection_builder(on_close).on_close
    /\ UNCHANGED << migrations, app_id, file_exists, store, is_new, foreign_keys, user_version,
                    latest_migration_version, idx, txn, pre, invoked, failed, txn_begun, prev,
                    conn_on_close, on_close_calls, txn_end, n_added >>

\* first attempt fails with CannotOpen; its connection builder took the hook
OpenCannotOpen ==
    /\ pc = "builder"
    /\ ~file_exists
    /\ target' = "file"
    /\ pc' = "retry"
    /\ first_attempt' = "cannot_open"
    /\ hook_configured' = on_close
    /\ on_close' = connection_builder(on_close).on_close
    /\ UNCHANGED << migrations, app_id, file_exists, store, is_new, foreign_keys, user_version,
                    latest_migration_version, idx, txn, outcome, pre, invoked, failed, txn_begun, prev,
                    conn_on_close, on_close_calls, txn_end, n_added >>

\* retry with SQLITE_OPEN_CREATE succeeds: the file is created; the connection
\* comes from a second call of connection_builder()
OpenCreate ==
    /\ pc = "retry"
    /\ file_exists' = TRUE
    /\ StartPass("file", TRUE, store["file"])
    /\ conn_on_close' = connection_builder(on_close).hook
    /\ on_close' = connection_builder(on_close).on_close
    /\ UNCHANGED << migrations, app_id, store, foreign_keys, user_version,
                    latest_migration_version, idx, txn, outcome, invoked, failed, txn_begun, prev,
                    on_close_calls, hook_configured, first_attempt, txn_end, n_added >>

\* retry fails: `?`
OpenCreateFails ==
    /\ pc = "retry"
    /\ outcome' = [kind |-> "Db"]
    /\ pc' = "done"
    /\ on_close' = connection_builder(on_close).on_close
    /\ UNCHANGED << migrations, app_id, file_exists, store, target, is_new, foreign_keys, user_version,
                    latest_migration_version, idx, txn, pre, invoked, failed, txn_begun, prev,
                    conn_on_close, on_close_calls, hook_configured, first_attempt, txn_end, n_added >>

\* ------------------------------------------------------------ setup
hook_vars == << on_close, conn_on_close, on_close_calls, hook_configured, first_attempt, n_added >>

\* builder.rs:120-133
SetupIdentity ==
    /\ pc = "identity"
    /\ IF stamps_tag(is_new)
       THEN /\ store' = [store EXCEPT ![target].application_id = app_id]
            /\ pc' = "foreign_keys"
            /\ UNCHANGED outcome
       ELSE LET val == store[target].application_id
            IN IF val # app_id
               THEN /\ outcome' = WrongApplicationId(val, app_id)
                    /\ pc' = "done"
                    /\ UNCHANGED store
               ELSE /\ pc' = "foreign_keys"
                    /\ UNCHANGED << store, outcome >>
    /\ UNCHANGED << migrations, app_id, file_exists, target, is_new, foreign_keys, user_version,
                    latest_migration_version, idx, txn, pre, invoked, failed, txn_begun, prev,
                    hook_vars, txn_end >>

\* builder.rs:136
SetupForeignKeys ==
    /\ pc = "foreign_keys"
    /\ foreign_keys' = set_foreign_keys(foreign_keys)
    /\ pc' = "read_version"
    /\ UNCHANGED << migrations, app_id, file_exists, store, target, is_new, user_version,
                    latest_migration_version, idx, txn, outcome, pre, invoked, failed, txn_begun, prev,
                    hook_vars, txn_end >>

\* builder.rs:139-143
SetupReadVersion ==
    /\ pc = "read_version"
    /\ user_version' = store[target].user_version
    /\ pc' = "begin"
    /\ UNCHANGED << migrations, app_id, file_exists, store, target, is_new, foreign_keys,
                    latest_migration_version, idx, txn, outcome, pre, invoked, failed, txn_begun, prev,
                    hook_vars, txn_end >>

\* builder.rs:148-150
SetupBegin ==
    /\ pc = "begin"
    /\ txn' = transaction(store[target])
    /\ txn_begun' = TRUE
    /\ latest_migration_version' = 0
    /\ idx' = 1
    /\ pc' = "loop"
    /\ UNCHANGED << migrations, app_id, file_exists, store, target, is_new, foreign_keys,
                    user_version, outcome, pre, invoked, failed, prev, hook_vars, txn_end >>

\* builder.rs:151-156.  The loop binds the version and the procedure of each
\* item of iter(); perform_in_transaction is never read, and every procedure
\* is handed &*transaction.
\* One iteration whose migration is not pending:
SetupSkip ==
    /\ pc = "loop"
    /\ idx <= Len(iter(migrations))
    /\ LET m == iter(migrations)[idx]
       IN /\ ~pending(m.version, user_version)
          /\ latest_migration_version' = m.version
    /\ idx' = next_idx(idx)
    /\ UNCHANGED << migrations, app_id, file_exists, store, pc, target, is_new, foreign_keys,
                    user_version, txn, outcome, pre, invoked, failed, txn_begun, prev,
                    hook_vars, txn_end >>

\* one iteration whose migration is pending and returns Ok(())
SetupMigrationOk ==
    /\ pc = "loop"
    /\ idx <= Len(iter(migrations))
    /\ LET m == iter(migrations)[idx]
       IN /\ pending(m.version, user_version)
          /\ latest_migration_version' = m.version
          /\ txn' = run_migration(txn, m)
          /\ store' = [store EXCEPT ![target] = after_migration(@, run_migration(txn, m))]
    /\ invoked' = Append(invoked, idx)
    /\ idx' = next_idx(idx)
    /\ UNCHANGED << migrations, app_id, file_exists, pc, target, is_new, foreign_keys,
                    user_version, outcome, pre, failed, txn_begun, prev, hook_vars, txn_end >>

\* one iteration whose migration is pending, writes and returns Err(e):
\* map_err(ConnectionBuilderError::Migration)? returns, dropping the transaction
SetupMigrationErr ==
    /\ pc = "loop"
    /\ idx <= Len(iter(migrations))
    /\ LET m == iter(migrations)[idx]
       IN /\ pending(m.version, user_version)
          /\ latest_migration_version' = m.version
          /\ store' = [store EXCEPT ![target] = transaction_drop(@, run_migration(txn, m))]
    /\ txn' = NoTxn
    /\ txn_end' = "rolled_back"
    /\ invoked' = Append(invoked, idx)
    /\ failed' = idx
    /\ outcome' = [kind |-> "Migration"]
    /\ pc' = "done"
    /\ UNCHANGED << migrations, app_id, file_exists, target, is_new, foreign_keys,
                    user_version, idx, pre, txn_begun, prev, hook_vars >>

\* builder.rs:158-172, the user_version update and the commit succeed
SetupFinish ==
    /\ pc = "loop"
    /\ idx > Len(iter(migrations))
    /\ IF needs_commit(latest_migration_version, user_version)
       THEN /\ store' = [store EXCEPT ![target] =
                            commit(@, [txn EXCEPT !.user_version = latest_migration_version])]
            /\ txn_end' = "committed"
            /\ outcome' = [kind |-> "Ok"]
       ELSE IF latest_migration_version < user_version
       THEN /\ store' = [store EXCEPT ![target] = transaction_drop(@, txn)]
            /\ txn_end' = "rolled_back"
            /\ outcome' = OutOfDate(user_version, latest_migration_version)
       ELSE /\ store' = [store EXCEPT ![target] = transaction_drop(@, txn)]
            /\ txn_end' = "rolled_back"
            /\ outcome' = [kind |-> "Ok"]
    /\ txn' = NoTxn
    /\ pc' = "done"
    /\ UNCHANGED << migrations, app_id, file_exists, target, is_new, foreign_keys,
                    user_version, latest_migration_version, idx, pre, invoked, failed, txn_begun, prev,
                    hook_vars >>

\* builder.rs:160-161, pragma_update or commit fails: `?` returns Db(e)
SetupFinishDbError ==
    /\ pc = "loop"
    /\ idx > Len(iter(migrations))
    /\ needs_commit(latest_migration_version, user_version)
    /\ store' = [store EXCEPT ![target] = transaction_drop(@, txn)]
    /\ txn_end' = "rolled_back"
    /\ outcome' = [kind |-> "Db"]
    /\ txn' = NoTxn
    /\ pc' = "done"
    /\ UNCHANGED << migrations, app_id, file_exists, target, is_new, foreign_keys,
                    user_version, latest_migration_version, idx, pre, invoked, failed, txn_begun, prev,
                    hook_vars >>

\* one step of setup
SetupStep ==
    \/ SetupIdentity
    \/ SetupForeignKeys
    \/ SetupReadVersion
    \/ SetupBegin
    \/ SetupSkip
    \/ SetupMigrationOk
    \/ SetupMigrationErr
    \/ SetupFinish
    \/ SetupFinishDbError

\* ------------------------------------------------------------ after the pass
\* The caller drops what open returned.  A connection that carries the hook
\* calls it as its thread shuts down.
Close ==
    /\ pc = "done"
    /\ on_close_calls' = IF conn_on_close THEN 1 ELSE 0
    /\ pc' = "closed"
    /\ UNCHANGED << migrations, app_id, file_exists, store, target, is_new, foreign_keys,
                    user_version, latest_migration_version, idx, txn, outcome, pre, invoked,
                    failed, txn_begun, prev, on_close, conn_on_close, hook_configured, first_attempt,
                    txn_end, n_added >>

ResetPass ==
    /\ target' = "file"
    /\ is_new' = FALSE
    /\ foreign_keys' = "default"
    /\ user_version' = 0
    /\ latest_migration_version' = 0
    /\ idx' = 0
    /\ txn' = NoTxn
    /\ outcome' = NoOutcome
    /\ pre' = BlankDb
    /\ invoked' = << >>
    /\ failed' = 0
    /\ txn_begun' = FALSE
    /\ conn_on_close' = FALSE
    /\ on_close_calls' = 0
    /\ hook_configured' = FALSE
    /\ first_attempt' = "none"
    /\ txn_end' = "none"
    /\ pc' = "builder"
    \* an in-memory database is gone once its connection is closed
    /\ store' = [store EXCEPT !["memory"] = BlankDb]

\* the caller starts again from ConnectionBuilder::new()
NewBuilder ==
    /\ pc \in {"closed", "panicked"}
    /\ migrations' = << >>
    /\ app_id' = 0
    /\ on_close' = FALSE
    /\ n_added' = 0
    /\ prev' = NoPrev
    /\ ResetPass
    /\ UNCHANGED << file_exists >>

\* after a successful first open of a new file, the caller builds the identical
\* configuration again (any other configuration is built from NewBuilder)
SameBuilder ==
    /\ pc = "closed"
    /\ target = "file"
    /\ is_new
    /\ outcome.kind = "Ok"
    /\ prev' = [same |-> TRUE,
                fresh_ok |-> is_new /\ outcome.kind = "Ok",
                version |-> store["file"].user_version]
    /\ on_close' = hook_configured
    /\ ResetPass
    /\ UNCHANGED << migrations, app_id, file_exists, n_added >>

Next ==
    \/ AddMigration
    \/ AddMigrationPanics
    \/ SetAppId
    \/ SetOnClose
    \/ OpenInMemory
    \/ OpenExisting
    \/ OpenFailsOther
    \/ OpenCannotOpen
    \/ OpenCreate
    \/ OpenCreateFails
    \/ SetupIdentity
    \/ SetupForeignKeys
    \/ SetupReadVersion
    \/ SetupBegin
    \/ SetupSkip
    \/ SetupMigrationOk
    \/ SetupMigrationErr
    \/ SetupFinish
    \/ SetupFinishDbError
    \/ Close
    \/ NewBuilder
    \/ SameBuilder

Spec == Init /\ [][Next]_vars

\* ------------------------------------------------------------ vocabulary of the properties
registered_versions == {migrations[i].version : i \in 1..Len(migrations)}

highest_registered ==
    IF migrations = << >> THEN 0
    ELSE CHOOSE v \in registered_versions : \A w \in registered_versions : w <= v

versions_in_order == [i \in 1..Len(migrations) |-> iter(migrations)[i].version]

invoked_versions == [k \in 1..Len(invoked) |-> iter(migrations)[invoked[k]].version]

invoked_set == {invoked[k] : k \in 1..Len(invoked)}

pending_set == {i \in 1..Len(migrations) : iter(migrations)[i].version > user_version}

distinct_versions == Cardinality(registered_versions) = Len(migrations)

ascending == \A i, j \in 1..Len(migrations) :
                i < j => iter(migrations)[i].version <= iter(migrations)[j].version

\* open returned before a connection was handed to setup
open_failed == pc = "done" /\ outcome.kind = "Db" /\ ~txn_begun

C2_IterAscending == ascending

\* ------------------------------------------------------------ C3
\* C3: a pass that returns success with a non-empty registry leaves the
\* persisted schema version equal to the highest registered version, and the
\* effects of every migration above the version read at the start committed.
C3_SuccessReachesHighest ==
    (pc = "done" /\ outcome.kind = "Ok" /\ migrations # << >>)
        => /\ store[target].user_version = highest_registered
           /\ \A v \in registered_versions : v > pre.user_version => v \in store[target].content

\* ------------------------------------------------------------ C4
\* C4: after a successful open of a fresh store with a registry of distinct
\* versions, reopening the store with the identical registry invokes no
\* migration, succeeds and leaves the schema version as the first open left it.
C4_ReopenIsIdempotent ==
    (prev.same /\ prev.fresh_ok /\ distinct_versions /\ target = "file" /\ ~open_failed)
        => /\ invoked = << >>
           /\ pc = "done" => /\ outcome.kind = "Ok"
                             /\ store["file"].user_version = prev.version

\* ------------------------------------------------------------ C5
\* C5 as stated: in a pass that read schema version v, the migrations invoked
\* are exactly those whose version is strictly greater than v.
C5_InvokedIffPending ==
    (pc = "done" /\ txn_begun) => invoked_set = pending_set

\* C5 as amended: a migration is invoked only if its version is strictly
\* greater than the version read, and at most once; when no invoked migration
\* failed, every migration with a greater version was invoked; a successful
\* reopen of a file at version 1 with registry {1,2} runs only migration 2 and
\* ends at version 2 with the effects of 1 and 2 present.
C5_InvokedOnlyPendingOnce ==
    /\ invoked_set \subseteq pending_set
    /\ Cardinality(invoked_set) = Len(invoked)
    /\ (pc = "done" /\ txn_begun /\ failed = 0) => invoked_set = pending_set
    /\ (pc = "done" /\ outcome.kind = "Ok" /\ pre.user_version = 1
            /\ Len(migrations) = 2 /\ registered_versions = {1, 2})
        => /\ invoked_versions = << 2 >>
           /\ store[target].user_version = 2
           /\ {1, 2} \subseteq store[target].content

\* the reopen of new_migrations_applied_as_needed
C5_Witness ==
    /\ pc = "done"
    /\ target = "file"
    /\ ~is_new
    /\ outcome.kind = "Ok"
    /\ pre.user_version = 1
    /\ versions_in_order = << 1, 2 >>
    /\ invoked_versions = << 2 >>
    /\ store["file"].user_version = 2

\* ------------------------------------------------------------ C6
\* C6: on a pre-existing file whose application tag matches, open fails with
\* OutOfDate exactly when the persisted version exceeds the highest registered
\* version, and the error carries the persisted and the highest registered version.
C6_OutOfDateExact ==
    (pc = "done" /\ target = "file" /\ ~is_new /\ txn_begun)
        => /\ outcome.kind = "OutOfDate" <=> pre.user_version > highest_registered
           /\ outcome.kind = "OutOfDate"
                => outcome = OutOfDate(pre.user_version, highest_registered)

\* ------------------------------------------------------------ C7
\* C7: opening a pre-existing file whose application tag differs from the
\* configured one fails with WrongApplicationId carrying the tag on disk, and
\* that pass invokes no migration, begins no transaction and leaves the
\* foreign-key mode alone.
C7_WrongApplicationId ==
    /\ (pc = "done" /\ ~open_failed /\ ~is_new /\ pre.application_id # app_id)
          => outcome.kind = "WrongApplicationId"
    /\ outcome.kind = "WrongApplicationId"
          => /\ ~is_new
             /\ outcome.id = pre.application_id
             /\ outcome.id # app_id
             /\ invoked = << >>
             /\ ~txn_begun
             /\ ~txn.active
             /\ foreign_keys = "default"

\* a mismatching open whose registry holds migrations the file has not seen
C7_Witness ==
    /\ pc = "done"
    /\ outcome.kind = "WrongApplicationId"
    /\ pre.application_id = APP_ID
    /\ \E v \in registered_versions : v > store["file"].user_version

\* ------------------------------------------------------------ C8
\* C8: a pass that ends in WrongApplicationId or OutOfDate leaves application
\* tag, schema version and migrated content as they were before the pass.
C8_FailedOpenDoesNotMutate ==
    (pc = "done" /\ outcome.kind \in {"WrongApplicationId", "OutOfDate"})
        => store[target] = pre

\* OutOfDate decided after a migration had run inside the transaction
C8_Witness ==
    /\ pc = "done"
    /\ outcome.kind = "OutOfDate"
    /\ invoked # << >>

\* ------------------------------------------------------------ C9
\* C9: when a later pending migration fails, the persisted user_version is
\* the version of the last migration that succeeded before it, and that
\* migration's effects are persisted.
C9_AppliedUpToBrokenOne ==
    (pc = "done" /\ target = "file" /\ failed # 0 /\ Len(invoked) >= 2
            /\ ascending /\ distinct_versions
            /\ \A i \in 1..Len(migrations) : iter(migrations)[i].perform_in_transaction)
        => /\ outcome.kind = "Migration"
           /\ store[target].user_version = invoked_versions[Len(invoked) - 1]
           /\ invoked_versions[Len(invoked) - 1] \in store[target].content

\* ------------------------------------------------------------ C10
\* C10: a migration added with add_non_transactionally that writes and then
\* fails leaves its writes persisted; open returns a Migration error and the
\* schema version is not advanced.
C10_NonTransactionalNotRolledBack ==
    (pc = "done" /\ target = "file" /\ failed # 0
            /\ ~iter(migrations)[failed].perform_in_transaction)
        => /\ outcome.kind = "Migration"
           /\ iter(migrations)[failed].version \in store["file"].content
           /\ store["file"].user_version = pre.user_version

\* ------------------------------------------------------------ C11
\* setup is between its identity check and its return
in_pass == pc \in {"identity", "foreign_keys", "read_version", "begin", "loop"}

\* the pass is over (its result not yet dropped, or just dropped)
pass_over == pc \in {"done", "closed"}

\* C11: over any sequence of passes on the file the persisted schema version
\* never decreases: every step leaves it unchanged or writes a greater value.
C11_VersionNeverDecreases ==
    [][store'["file"].user_version >= store["file"].user_version]_vars

\* a pass on a file already at a version > 0 that wrote a greater version
C11_Witness ==
    /\ pc = "done"
    /\ target = "file"
    /\ ~is_new
    /\ pre.user_version > 0
    /\ store["file"].user_version > pre.user_version

\* ------------------------------------------------------------ C12
\* C12: the application tag is written only by the pass that created the
\* store: a successful open of a new store leaves the configured tag in it, the
\* file's tag changes only in the identity step of the pass that created the
\* file, and a file that exists is never opened as new again.
C12_TagWrittenOnlyWhenNew ==
    /\ []((pass_over /\ is_new /\ outcome.kind = "Ok") => store[target].application_id = app_id)
    /\ [][store'["file"].application_id # store["file"].application_id
            => /\ pc = "identity"
               /\ is_new
               /\ target = "file"
               /\ first_attempt = "cannot_open"
               /\ store'["file"].application_id = app_id]_vars
    /\ [][(file_exists /\ pc = "builder") => ~(is_new' /\ target' = "file")]_vars

\* a successful pass on a pre-existing file that carries the tag written at creation
C12_Witness ==
    /\ pc = "done"
    /\ target = "file"
    /\ ~is_new
    /\ outcome.kind = "Ok"
    /\ app_id = APP_ID
    /\ store["file"].application_id = APP_ID

\* ------------------------------------------------------------ C13
\* C13: registering a version <= 0 panics and inserts nothing, so no registry
\* holds a non-positive version and no pass invokes one.
C13_NoNonPositiveVersion ==
    /\ [](\A i \in 1..Len(migrations) : migrations[i].version > 0)
    /\ [](\A k \in 1..Len(invoked) : iter(migrations)[invoked[k]].version > 0)
    /\ [][(pc' = "panicked" /\ pc # "panicked")
            => (migrations' = migrations /\ n_added' = n_added)]_vars

\* the panic of an add call on a registry that already holds migrations
C13_Witness ==
    /\ pc = "panicked"
    /\ migrations # << >>

\* ------------------------------------------------------------ C14
\* C14: a hook configured with on_close is attached to the connection open
\* returns and is called exactly once when that connection is closed, whether
\* the file existed or had to be created.
C14_OnCloseCalledOnce ==
    (hook_configured /\ outcome.kind = "Ok")
        => /\ conn_on_close
           /\ pc = "closed" => on_close_calls = 1

\* ------------------------------------------------------------ C15
\* C15: on a file only ever opened with transactional migrations of distinct
\* versions, the persisted effects are exactly those of the migrations run with
\* version <= the persisted schema version, and the persisted version is the
\* highest version whose effects are committed (stated for the first pass on
\* a new file, after which the file has seen this registry only).
C15_VersionContentInSync ==
    (pc = "done" /\ target = "file" /\ is_new /\ distinct_versions
            /\ \A i \in 1..Len(migrations) : iter(migrations)[i].perform_in_transaction)
        => LET db == store["file"]
               ran == {invoked_versions[k] : k \in 1..Len(invoked)}
           IN /\ db.content = {v \in ran : v <= db.user_version}
              /\ \A v \in db.content : v <= db.user_version
              /\ db.user_version > 0 => db.user_version \in db.content

C18_IsNewFromOpener ==
    /\ [](in_pass => (is_new <=> (target = "memory" \/ first_attempt = "cannot_open")))
    /\ []((in_pass /\ target = "file" /\ first_attempt = "ok") => ~is_new)
    /\ [](first_attempt = "other"
            => /\ pass_over
               /\ outcome.kind = "Db"
               /\ ~txn_begun
               /\ invoked = << >>
               /\ foreign_keys = "default")
    /\ [][(first_attempt' = "other")
            => (file_exists' = file_exists /\ store'["file"] = store["file"])]_vars

\* an existing but empty file is opened: not new
C18_Witness ==
    /\ pc = "identity"
    /\ target = "file"
    /\ first_attempt = "ok"
    /\ ~is_new
    /\ store["file"] = BlankDb

\* ------------------------------------------------------------ C19
\* C19: iter() yields as many items as add calls returned (migrations of equal
\* version are all kept), a pass that runs its loop to the end has visited
\* every item once, and a pass leaves the registry unchanged.
C19_IterYieldsEachOnce ==
    /\ [](Len(iter(migrations)) = n_added)
    /\ []((pass_over /\ txn_begun /\ failed = 0) => idx = Len(migrations) + 1)
    /\ [][(pc # "builder" /\ pc' # "builder") => migrations' = migrations]_vars

\* two migrations of one version, both yielded and both invoked
C19_Witness ==
    /\ pc = "done"
    /\ outcome.kind = "Ok"
    /\ Len(migrations) >= 2
    /\ ~distinct_versions
    /\ Len(invoked) = Len(migrations)

\* ------------------------------------------------------------ C20
\* setup is straight-line code around one loop over a finite iterator, run to
\* completion on the connection's thread: a step of setup that can be taken
\* is taken
\* (perform_in_transaction and the on_close hook play no part in setup's
\* control flow: the passes considered are those of callers that register with
\* add / add_migration, set no hook and open a file).
LiveNext ==
    \/ AddTransactional
    \/ AddMigrationPanics
    \/ SetAppId
    \/ OpenExisting
    \/ OpenFailsOther
    \/ OpenCannotOpen
    \/ OpenCreate
    \/ OpenCreateFails
    \/ SetupIdentity
    \/ SetupForeignKeys
    \/ SetupReadVersion
    \/ SetupBegin
    \/ SetupSkip
    \/ SetupMigrationOk
    \/ SetupMigrationErr
    \/ SetupFinish
    \/ SetupFinishDbError
    \/ Close
    \/ NewBuilder

LiveSpec == Init /\ [][LiveNext]_vars /\ WF_vars(SetupStep)

terminal_outcomes == {"Ok", "WrongApplicationId", "OutOfDate", "Migration", "Db"}

\* steps of setup still ahead, at most
steps_left ==
    CASE pc = "identity" -> Len(migrations) + 5
      [] pc = "foreign_keys" -> Len(migrations) + 4
      [] pc = "read_version" -> Len(migrations) + 3
      [] pc = "begin" -> Len(migrations) + 2
      [] pc = "loop" -> Len(migrations) + 2 - idx
      [] OTHER -> 0

\* C20: every setup pass reaches a terminal outcome; it has none before, keeps
\* the one it reached and changes nothing more until its result is dropped;
\* and no step of setup is repeated (every step brings the end nearer).
C20_PassTerminatesOnce ==
    /\ in_pass ~> pc = "done"
    /\ [](in_pass => outcome.kind = "none")
    /\ [](pass_over => outcome.kind \in terminal_outcomes)
    /\ [][pc = "done" => (outcome' = outcome /\ store' = store /\ txn' = txn
                            /\ invoked' = invoked /\ foreign_keys' = foreign_keys)]_vars
    /\ [][in_pass => (steps_left' < steps_left /\ steps_left' >= 0)]_vars

\* a pass that went through its whole loop, with migrations invoked, and ended
C20_Witness ==
    /\ pc = "done"
    /\ txn_begun
    /\ Len(invoked) >= 2
    /\ idx = Len(migrations) + 1
    /\ outcome.kind \in terminal_outcomes

TypeOK ==
    /\ pc \in {"builder", "panicked", "retry", "identity", "foreign_keys", "read_version",
               "begin", "loop", "done", "closed"}
    /\ Len(migrations) <= MaxMigrations
    /\ app_id \in AppIds
    /\ file_exists \in BOOLEAN
    /\ target \in Targets
    /\ user_version \in 0..MaxVersion
    /\ latest_migration_version \in 0..MaxVersion
====
